---- MODULE Spec2Model ----
(***************************************************************************)
(* Model of the mini payment gateway: FraudDetector (fraudDetection.ts),   *)
(* LLMService (llmService.ts) and PaymentService (paymentService.ts).      *)
(*                                                                         *)
(* Numbers.  A risk score is held in hundredths: 30 stands for the double  *)
(* 0.3, 100 for 1.0.  The code adds the doubles 0.3, 0.4, 0.2, 0.3 in that *)
(* order; for the twelve signal combinations an amount and an email can    *)
(* trigger, the binary64 sums are the doubles nearest to k/10 except       *)
(* 0.3+0.4+0.2 = 0.8999999999999999, and every comparison the code makes   *)
(* (< 0.3, >= 0.5, < 0.7, min with 1.0) and toFixed(2) gives the result of *)
(* the exact decimal arithmetic used here.                                 *)
(* Strings are TLA+ strings, compared and searched character by character. *)
(***************************************************************************)
EXTENDS Integers, Sequences, FiniteSets, TLC

VARIABLES
    apiKey,        \* process.env.OPENAI_API_KEY
    cache,         \* LLMService.cache : Map<string, string>
    transactions,  \* PaymentService.transactions : Transaction[]
    calls,         \* the invocations of processCharge / generateExplanation
    microtasks,    \* the continuations ready to run, in FIFO order
    now,           \* the clock read by new Date()
    snapshots,     \* the arrays getTransactions has returned to callers
    probe          \* the last call of a pure function and its result

vars ==
    <<apiKey, cache, transactions, calls, microtasks, now, snapshots, probe>>

(***************************************************************************)
(* Bounds and input sets                                                   *)
(***************************************************************************)
MaxCalls == 2

MaxNow == 2

MaxSnapshots == 2

Calls == 1..MaxCalls

Amounts == {1, 1000, 50000, 50001, 60000, 100000, 100001, 150000, 200000}

Emails ==
    { "user@gmail.com", "user@mail.ru", "USER@MAIL.RU", "user@test.com",
      "user@x.tk", "user@x.ml", "user@x.ga", "temp@gmail.com",
      "Fake@gmail.com", "x@faketest.org", "temp@test.com", "a.ru@gmail.com" }

Currencies == {"USD", "EUR"}

Sources == {"tok_test"}

ProbeRequests ==
    [amount : Amounts, currency : Currencies, source : Sources, email : Emails]

ProbeScores == 0..100

(***************************************************************************)
(* String.prototype.toLowerCase and String.prototype.includes              *)
(***************************************************************************)
lowerChar(c) ==
    CASE c = "A" -> "a" [] c = "B" -> "b" [] c = "C" -> "c" [] c = "D" -> "d"
      [] c = "E" -> "e" [] c = "F" -> "f" [] c = "G" -> "g" [] c = "H" -> "h"
      [] c = "I" -> "i" [] c = "J" -> "j" [] c = "K" -> "k" [] c = "L" -> "l"
      [] c = "M" -> "m" [] c = "N" -> "n" [] c = "O" -> "o" [] c = "P" -> "p"
      [] c = "Q" -> "q" [] c = "R" -> "r" [] c = "S" -> "s" [] c = "T" -> "t"
      [] c = "U" -> "u" [] c = "V" -> "v" [] c = "W" -> "w" [] c = "X" -> "x"
      [] c = "Y" -> "y" [] c = "Z" -> "z" [] OTHER -> c

RECURSIVE toLowerCase(_)
toLowerCase(s) ==
    IF Len(s) = 0 THEN ""
    ELSE lowerChar(SubSeq(s, 1, 1)) \o toLowerCase(SubSeq(s, 2, Len(s)))

includes(s, sub) ==
    \E i \in 1..(Len(s) - Len(sub) + 1) : SubSeq(s, i, i + Len(sub) - 1) = sub

Min(a, b) == IF a <= b THEN a ELSE b

(***************************************************************************)
(* FraudDetector                                                           *)
(***************************************************************************)
suspiciousDomains == {".ru", "test.com", ".tk", ".ml", ".ga"}

\* Mutant: the large-amount check includes the boundary (>= 50000).
calculateRiskScore_ge(request) ==
    LET email == toLowerCase(request.email)
        s1 == IF request.amount >= 50000 THEN 30 ELSE 0
        s2 == IF \E domain \in suspiciousDomains : includes(email, domain)
              THEN s1 + 40 ELSE s1
        s3 == IF request.amount > 100000 THEN s2 + 20 ELSE s2
        s4 == IF includes(email, "temp") \/ includes(email, "fake")
              THEN s3 + 30 ELSE s3
    IN  Min(s4, 100)

\* Mutant: the sum is returned without the cap (return score).
calculateRiskScore_nocap(request) ==
    LET email == toLowerCase(request.email)
        s1 == IF request.amount > 50000 THEN 30 ELSE 0
        s2 == IF \E domain \in suspiciousDomains : includes(email, domain)
              THEN s1 + 40 ELSE s1
        s3 == IF request.amount > 100000 THEN s2 + 20 ELSE s2
        s4 == IF includes(email, "temp") \/ includes(email, "fake")
              THEN s3 + 30 ELSE s3
    IN  s4

\* Mutant: a velocity signal, +0.2 when the ledger already holds a
\* transaction of the same email.
calculateRiskScore_velocity(request) ==
    LET email == toLowerCase(request.email)
        s1 == IF request.amount > 50000 THEN 30 ELSE 0
        s2 == IF \E domain \in suspiciousDomains : includes(email, domain)
              THEN s1 + 40 ELSE s1
        s3 == IF request.amount > 100000 THEN s2 + 20 ELSE s2
        s4 == IF includes(email, "temp") \/ includes(email, "fake")
              THEN s3 + 30 ELSE s3
        s5 == IF \E i \in 1..Len(transactions) :
                     transactions[i].request.email = request.email
              THEN s4 + 20 ELSE s4
    IN  Min(s5, 100)

\* Mutant: the very-large-amount check is the else branch of the
\* large-amount check, so it never adds its 0.2.
calculateRiskScore_elseIf(request) ==
    LET email == toLowerCase(request.email)
        s1 == IF request.amount > 50000 THEN 30 ELSE 0
        s2 == IF \E domain \in suspiciousDomains : includes(email, domain)
              THEN s1 + 40 ELSE s1
        s3 == IF request.amount <= 50000 /\ request.amount > 100000
              THEN s2 + 20 ELSE s2
        s4 == IF includes(email, "temp") \/ includes(email, "fake")
              THEN s3 + 30 ELSE s3
    IN  Min(s4, 100)

\* Mutant: the large-amount check stops at 100000, so a very large amount
\* adds 0.2 instead of 0.3 + 0.2.
calculateRiskScore_bands(request) ==
    LET email == toLowerCase(request.email)
        s1 == IF request.amount > 50000 /\ request.amount <= 100000
              THEN 30 ELSE 0
        s2 == IF \E domain \in suspiciousDomains : includes(email, domain)
              THEN s1 + 40 ELSE s1
        s3 == IF request.amount > 100000 THEN s2 + 20 ELSE s2
        s4 == IF includes(email, "temp") \/ includes(email, "fake")
              THEN s3 + 30 ELSE s3
    IN  Min(s4, 100)

calculateRiskScore(request) ==
    LET email == toLowerCase(request.email)
        s1 == IF request.amount > 50000 THEN 30 ELSE 0
        s2 == IF \E domain \in suspiciousDomains : includes(email, domain)
              THEN s1 + 40 ELSE s1
        s3 == IF request.amount > 100000 THEN s2 + 20 ELSE s2
        s4 == IF includes(email, "temp") \/ includes(email, "fake")
              THEN s3 + 30 ELSE s3
    IN  Min(s4, 100)

\* Mutant: the threshold is exclusive (riskScore > 0.5).
shouldBlock_gt(riskScore) == riskScore > 50

\* Mutant: only scores of 0.7 and more are blocked.
shouldBlock_high(riskScore) == riskScore >= 70

shouldBlock(riskScore) == riskScore >= 50

(***************************************************************************)
(* PaymentService: the decision part of processCharge, and selectProvider  *)
(***************************************************************************)
Null == "null"    \* the value null of `PaymentProvider | null`

\* Mutant: the routing threshold includes the boundary (riskScore <= 0.3).
selectProvider_le(riskScore) == IF riskScore <= 30 THEN "stripe" ELSE "paypal"

selectProvider(riskScore) == IF riskScore < 30 THEN "stripe" ELSE "paypal"

\* Mutant: the status is set to 'success' outside the if (!isBlocked) block.
processChargeDecision_status(riskScore) ==
    LET isBlocked == shouldBlock(riskScore)
    IN  IF ~isBlocked
        THEN [isBlocked |-> isBlocked, provider |-> selectProvider(riskScore),
              status |-> "success", selectProviderCalls |-> <<riskScore>>]
        ELSE [isBlocked |-> isBlocked, provider |-> Null, status |-> "success",
              selectProviderCalls |-> <<>>]

\* Mutant: the provider is selected before the block decision is looked at
\* and dropped for a blocked charge.
processChargeDecision_routeFirst(riskScore) ==
    LET isBlocked == shouldBlock(riskScore)
        selected == selectProvider(riskScore)
    IN  IF ~isBlocked
        THEN [isBlocked |-> isBlocked, provider |-> selected,
              status |-> "success", selectProviderCalls |-> <<riskScore>>]
        ELSE [isBlocked |-> isBlocked, provider |-> Null, status |-> "blocked",
              selectProviderCalls |-> <<riskScore>>]

\* processCharge lines 13-22: isBlocked, provider and status from the score.
\* selectProviderCalls lists the arguments of the calls of selectProvider.
processChargeDecision(riskScore) ==
    LET isBlocked == shouldBlock(riskScore)
    IN  IF ~isBlocked
        THEN [isBlocked |-> isBlocked, provider |-> selectProvider(riskScore),
              status |-> "success", selectProviderCalls |-> <<riskScore>>]
        ELSE [isBlocked |-> isBlocked, provider |-> Null, status |-> "blocked",
              selectProviderCalls |-> <<>>]

\* Mutant: the identifier is generated once, not once per call.
uuidv4_once(issued) == 1

\* uuidv4() (processCharge line 12): an identifier that was not issued before.
\* `issued` is the number of identifiers issued so far; the identifiers are
\* numbered in the order of their generation.
uuidv4(issued) == issued + 1

\* Mutant: the ledger is reassigned to an array holding the new transaction.
pushTransaction_replace(ledger, transaction) == <<transaction>>

\* Mutant: the transaction is added at the front (unshift).
pushTransaction_unshift(ledger, transaction) == <<transaction>> \o ledger

\* this.transactions.push(...) (processCharge lines 40-45).
pushTransaction(ledger, transaction) == Append(ledger, transaction)

\* processCharge lines 31-37: the response (provider || 'none').
buildResponse(call) ==
    [transactionId |-> call.transactionId,
     provider      |-> IF call.provider = Null THEN "none" ELSE call.provider,
     status        |-> call.status,
     riskScore     |-> call.riskScore,
     explanation   |-> call.explanation]

(***************************************************************************)
(* Number and boolean formatting                                           *)
(***************************************************************************)
twoDigits(n) == IF n < 10 THEN "0" \o ToString(n) ELSE ToString(n)

\* Number.prototype.toFixed(2) of h/100, for an integer h >= 0.
toFixed2(h) == ToString(h \div 100) \o "." \o twoDigits(h % 100)

\* String(x) of the number h/100 (shortest decimal form: 0, 0.3, 0.15, 1).
\* The pipeline's 0.3+0.4+0.2 prints as 0.8999999999999999 where this gives
\* 0.9; both differ from the form of every other score.
numberToString(h) ==
    IF h % 100 = 0 THEN ToString(h \div 100)
    ELSE IF h % 10 = 0
         THEN ToString(h \div 100) \o "." \o ToString((h % 100) \div 10)
         ELSE ToString(h \div 100) \o "." \o twoDigits(h % 100)

booleanToString(b) == IF b THEN "true" ELSE "false"

(***************************************************************************)
(* LLMService                                                              *)
(***************************************************************************)
cacheKey(request, riskScore, isBlocked) ==
    ToString(request.amount) \o "-" \o request.email \o "-"
        \o numberToString(riskScore) \o "-" \o booleanToString(isBlocked)

\* Mutant: the placeholder key "demo-key" counts as a usable key.
openAIUnavailable_noDemo == apiKey = ""

\* !process.env.OPENAI_API_KEY || process.env.OPENAI_API_KEY === "demo-key"
openAIUnavailable == apiKey = "" \/ apiKey = "demo-key"

\* Mutant: a score of 0.5 or more is labelled "high".
generateFallbackExplanation_half(request, riskScore, provider, isBlocked) ==
    LET riskLevel == IF riskScore < 30 THEN "low"
                     ELSE IF riskScore < 50 THEN "moderate" ELSE "high"
    IN  IF isBlocked
        THEN "Payment blocked due to " \o riskLevel \o " risk score ("
                 \o toFixed2(riskScore) \o ") from suspicious patterns."
        ELSE "Payment routed to " \o provider \o " with " \o riskLevel
                 \o " risk score (" \o toFixed2(riskScore) \o ") for $"
                 \o toFixed2(request.amount) \o " transaction."

generateFallbackExplanation(request, riskScore, provider, isBlocked) ==
    LET riskLevel == IF riskScore < 30 THEN "low"
                     ELSE IF riskScore < 70 THEN "moderate" ELSE "high"
    IN  IF isBlocked
        THEN "Payment blocked due to " \o riskLevel \o " risk score ("
                 \o toFixed2(riskScore) \o ") from suspicious patterns."
        ELSE "Payment routed to " \o provider \o " with " \o riskLevel
                 \o " risk score (" \o toFixed2(riskScore) \o ") for $"
                 \o toFixed2(request.amount) \o " transaction."

\* What openai.chat.completions.create can settle with: a reply whose
\* choices[0].message.content is a text, a reply whose content is empty or
\* missing (""), or a rejection.
LLMTexts == {"AI explanation one", "AI explanation two"}

Replies ==
    [kind : {"content"}, content : LLMTexts \cup {""}] \cup {[kind |-> "error"]}

\* Mutant: the catch block rethrows instead of returning the fallback.
afterCreate_rethrow(call, reply) ==
    LET fallback == generateFallbackExplanation(call.request, call.riskScore,
                                                call.provider, call.isBlocked)
    IN  IF reply.kind = "error"
        THEN [explanation |-> "", store |-> FALSE, rejects |-> TRUE]
        ELSE [explanation |-> IF reply.content # "" THEN reply.content
                              ELSE fallback,
              store |-> TRUE, rejects |-> FALSE]

\* generateExplanation after the await (lines 57-75): the explanation, whether
\* it is stored in the cache, and whether the call rejects.
afterCreate(call, reply) ==
    LET fallback == generateFallbackExplanation(call.request, call.riskScore,
                                                call.provider, call.isBlocked)
    IN  IF reply.kind = "error"
        THEN [explanation |-> fallback, store |-> FALSE, rejects |-> FALSE]
        ELSE [explanation |-> IF reply.content # "" THEN reply.content
                              ELSE fallback,
              store |-> TRUE, rejects |-> FALSE]

(***************************************************************************)
(* State after construction                                                *)
(***************************************************************************)
ApiKeys == {"", "demo-key", "sk-live"}   \* "" stands for an unset variable

NoProbe == [op |-> "none"]

IdleCall == [pc |-> "idle"]

Init ==
    /\ apiKey \in ApiKeys
    /\ cache = <<>>
    /\ transactions = <<>>
    /\ calls = [c \in Calls |-> IdleCall]
    /\ microtasks = <<>>
    /\ now = 0
    /\ snapshots = <<>>
    /\ probe = NoProbe

(***************************************************************************)
(* generateExplanation up to its first await (lines 20-55): a cache hit, the *)
(* fallback when OpenAI is not available, or the call of                   *)
(* openai.chat.completions.create.                                         *)
(***************************************************************************)
\* Mutant: the provider is part of the key that is looked up.
generateExplanationStart_providerKey(request, riskScore, provider, isBlocked) ==
    LET key == cacheKey(request, riskScore, isBlocked) \o "-" \o provider
    IN  IF key \in DOMAIN cache
        THEN [path |-> "hit", explanation |-> cache[key], store |-> FALSE]
        ELSE IF openAIUnavailable
             THEN [path |-> "fallback",
                   explanation |-> generateFallbackExplanation(
                                       request, riskScore, provider, isBlocked),
                   store |-> TRUE]
             ELSE [path |-> "create", explanation |-> "", store |-> FALSE]

\* Mutant: with a usable key the cache is not consulted.
generateExplanationStart_noLookup(request, riskScore, provider, isBlocked) ==
    LET key == cacheKey(request, riskScore, isBlocked)
    IN  IF key \in DOMAIN cache /\ openAIUnavailable
        THEN [path |-> "hit", explanation |-> cache[key], store |-> FALSE]
        ELSE IF openAIUnavailable
             THEN [path |-> "fallback",
                   explanation |-> generateFallbackExplanation(
                                       request, riskScore, provider, isBlocked),
                   store |-> TRUE]
             ELSE [path |-> "create", explanation |-> "", store |-> FALSE]

generateExplanationStart(request, riskScore, provider, isBlocked) ==
    LET key == cacheKey(request, riskScore, isBlocked)
    IN  IF key \in DOMAIN cache
        THEN [path |-> "hit", explanation |-> cache[key], store |-> FALSE]
        ELSE IF openAIUnavailable
             THEN [path |-> "fallback",
                   explanation |-> generateFallbackExplanation(
                                       request, riskScore, provider, isBlocked),
                   store |-> TRUE]
             ELSE [path |-> "create", explanation |-> "", store |-> FALSE]

\* The calls that have returned to their caller.
Returned == {d \in Calls : calls[d].pc = "returned"}

\* Calls are numbered in the order of their invocation.
NextToInvoke(c) ==
    /\ calls[c].pc = "idle"
    /\ \A d \in Calls : d < c => calls[d].pc # "idle"

\* The synchronous part of generateExplanation, run by the invocation `call`.
\* A call that returns without awaiting has its caller's continuation queued;
\* a call that reaches the await is suspended until create settles.
EnterGenerateExplanation(c, call) ==
    LET start == generateExplanationStart(call.request, call.riskScore,
                                          call.provider, call.isBlocked)
        key == cacheKey(call.request, call.riskScore, call.isBlocked)
    IN  /\ cache' = IF start.store THEN (key :> start.explanation) @@ cache
                    ELSE cache
        /\ IF start.path = "create"
           THEN /\ calls' = [calls EXCEPT ![c] =
                       call @@ [pc |-> "awaitingCreate", explanation |-> "",
                                path |-> start.path, invokedAt |-> now,
                                externalCalls |-> 1, rejects |-> FALSE,
                                after |-> Returned]]
                /\ microtasks' = microtasks
           ELSE /\ calls' = [calls EXCEPT ![c] =
                       call @@ [pc |-> "resolved",
                                explanation |-> start.explanation,
                                path |-> start.path, invokedAt |-> now,
                                externalCalls |-> 0, rejects |-> FALSE,
                                after |-> Returned]]
                /\ microtasks' = Append(microtasks, c)

(***************************************************************************)
(* PaymentService.processCharge, lines 11-29: from the invocation to the   *)
(* await of generateExplanation.  Calls are numbered in the order of their *)
(* invocation, so c - 1 identifiers were issued before call c.             *)
(***************************************************************************)
\* Mutant: charges that are not blocked go to the two providers in turn.
processChargeStart_roundRobin(c, request) ==
    LET riskScore == calculateRiskScore(request)
        decision == processChargeDecision(riskScore)
    IN  [kind |-> "processCharge", request |-> request,
         transactionId |-> uuidv4(c - 1), riskScore |-> riskScore,
         isBlocked |-> decision.isBlocked,
         provider |-> IF decision.isBlocked THEN Null
                      ELSE IF c % 2 = 1 THEN "stripe" ELSE "paypal",
         status |-> decision.status,
         selectProviderCalls |-> decision.selectProviderCalls]

processChargeStart(c, request) ==
    LET riskScore == calculateRiskScore(request)
        decision == processChargeDecision(riskScore)
    IN  [kind |-> "processCharge", request |-> request,
         transactionId |-> uuidv4(c - 1), riskScore |-> riskScore,
         isBlocked |-> decision.isBlocked,
         provider |-> decision.provider, status |-> decision.status,
         selectProviderCalls |-> decision.selectProviderCalls]

\* Mutant: the transaction is pushed on arrival, before the explanation step.
InvokeProcessCharge_pushFirst(c, request) ==
    /\ NextToInvoke(c)
    /\ EnterGenerateExplanation(c, processChargeStart(c, request))
    /\ transactions' = pushTransaction(transactions,
           [id |-> uuidv4(c - 1), timestamp |-> now, request |-> request,
            response |-> [transactionId |-> uuidv4(c - 1)]])
    /\ UNCHANGED <<apiKey, now, snapshots, probe>>

InvokeProcessCharge(c, request) ==
    /\ NextToInvoke(c)
    /\ EnterGenerateExplanation(c, processChargeStart(c, request))
    /\ UNCHANGED <<apiKey, now, snapshots, transactions, probe>>

(***************************************************************************)
(* A caller other than processCharge calls LLMService.generateExplanation  *)
(* with arguments of its own.                                              *)
(***************************************************************************)
InvokeGenerateExplanation(c, request, riskScore, provider, isBlocked) ==
    /\ NextToInvoke(c)
    /\ EnterGenerateExplanation(c,
           [kind |-> "generateExplanation", request |-> request,
            transactionId |-> 0, riskScore |-> riskScore,
            isBlocked |-> isBlocked, provider |-> provider,
            status |-> "n/a"])
    /\ UNCHANGED <<apiKey, now, snapshots, transactions, probe>>

(***************************************************************************)
(* The promise of openai.chat.completions.create settles.                  *)
(***************************************************************************)
SettleCreate(c, reply) ==
    /\ calls[c].pc = "awaitingCreate"
    /\ calls' = [calls EXCEPT ![c] = [reply |-> reply] @@
                                     [calls[c] EXCEPT !.pc = "settled"]]
    /\ microtasks' = Append(microtasks, c)
    /\ UNCHANGED <<apiKey, now, snapshots, cache, transactions, probe>>

(***************************************************************************)
(* generateExplanation resumes after the await (lines 57-74).              *)
(***************************************************************************)
\* Mutant: a rejected external call is issued once more.
ResumeGenerateExplanation_retry ==
    /\ microtasks # <<>>
    /\ LET c == Head(microtasks)
           call == calls[c]
       IN  /\ call.pc = "settled"
           /\ IF call.reply.kind = "error" /\ call.externalCalls < 2
              THEN /\ cache' = cache
                   /\ calls' = [calls EXCEPT ![c] =
                          [call EXCEPT !.pc = "awaitingCreate",
                                       !.externalCalls = 2]]
                   /\ microtasks' = Tail(microtasks)
              ELSE /\ LET r == afterCreate(call, call.reply)
                          key == cacheKey(call.request, call.riskScore,
                                          call.isBlocked)
                      IN  /\ cache' = IF r.store
                                      THEN (key :> r.explanation) @@ cache
                                      ELSE cache
                          /\ calls' = [calls EXCEPT ![c] =
                                 [call EXCEPT !.pc = "resolved",
                                              !.explanation = r.explanation,
                                              !.rejects = r.rejects]]
                   /\ microtasks' = Append(Tail(microtasks), c)
    /\ UNCHANGED <<apiKey, now, snapshots, transactions, probe>>

\* Mutant: the catch block drops the entry of its key from the cache.
ResumeGenerateExplanation_evict ==
    /\ microtasks # <<>>
    /\ LET c == Head(microtasks)
           call == calls[c]
       IN  /\ call.pc = "settled"
           /\ LET r == afterCreate(call, call.reply)
                  key == cacheKey(call.request, call.riskScore, call.isBlocked)
              IN  /\ cache' = IF r.store THEN (key :> r.explanation) @@ cache
                              ELSE [k \in DOMAIN cache \ {key} |-> cache[k]]
                  /\ calls' = [calls EXCEPT ![c] =
                         [call EXCEPT !.pc = "resolved",
                                      !.explanation = r.explanation,
                                      !.rejects = r.rejects]]
           /\ microtasks' = Append(Tail(microtasks), c)
    /\ UNCHANGED <<apiKey, now, snapshots, transactions, probe>>

ResumeGenerateExplanation ==
    /\ microtasks # <<>>
    /\ LET c == Head(microtasks)
           call == calls[c]
       IN  /\ call.pc = "settled"
           /\ LET r == afterCreate(call, call.reply)
                  key == cacheKey(call.request, call.riskScore, call.isBlocked)
              IN  /\ cache' = IF r.store THEN (key :> r.explanation) @@ cache
                              ELSE cache
                  /\ calls' = [calls EXCEPT ![c] =
                         [call EXCEPT !.pc = "resolved",
                                      !.explanation = r.explanation,
                                      !.rejects = r.rejects]]
           /\ microtasks' = Append(Tail(microtasks), c)
    /\ UNCHANGED <<apiKey, now, snapshots, transactions, probe>>

(***************************************************************************)
(* processCharge resumes after `await generateExplanation` (lines 31-47):  *)
(* it builds the response, pushes the transaction and returns.  A rejected *)
(* promise is rethrown by the await.                                       *)
(***************************************************************************)
\* Mutant: the timestamp is the time of the request's arrival.
ResumeProcessCharge_arrivalTime ==
    /\ microtasks # <<>>
    /\ LET c == Head(microtasks)
           call == calls[c]
       IN  /\ call.pc = "resolved"
           /\ call.kind = "processCharge"
           /\ IF call.rejects
              THEN /\ calls' = [calls EXCEPT ![c].pc = "threw"]
                   /\ transactions' = transactions
              ELSE LET response == buildResponse(call)
                   IN  /\ transactions' = pushTransaction(transactions,
                              [id |-> call.transactionId,
                               timestamp |-> call.invokedAt,
                               request |-> call.request,
                               response |-> response])
                       /\ calls' = [calls EXCEPT ![c] =
                              [response |-> response, returnedAt |-> now] @@
                              [call EXCEPT !.pc = "returned"]]
    /\ microtasks' = Tail(microtasks)
    /\ UNCHANGED <<apiKey, now, snapshots, cache, probe>>

ResumeProcessCharge ==
    /\ microtasks # <<>>
    /\ LET c == Head(microtasks)
           call == calls[c]
       IN  /\ call.pc = "resolved"
           /\ call.kind = "processCharge"
           /\ IF call.rejects
              THEN /\ calls' = [calls EXCEPT ![c].pc = "threw"]
                   /\ transactions' = transactions
              ELSE LET response == buildResponse(call)
                   IN  /\ transactions' = pushTransaction(transactions,
                              [id |-> call.transactionId,
                               timestamp |-> now,
                               request |-> call.request,
                               response |-> response])
                       /\ calls' = [calls EXCEPT ![c] =
                              [response |-> response, returnedAt |-> now] @@
                              [call EXCEPT !.pc = "returned"]]
    /\ microtasks' = Tail(microtasks)
    /\ UNCHANGED <<apiKey, now, snapshots, cache, probe>>

(***************************************************************************)
(* The caller of a direct generateExplanation call receives the result.    *)
(***************************************************************************)
ResumeCaller ==
    /\ microtasks # <<>>
    /\ LET c == Head(microtasks)
           call == calls[c]
       IN  /\ call.pc = "resolved"
           /\ call.kind = "generateExplanation"
           /\ calls' = [calls EXCEPT ![c].pc =
                           IF call.rejects THEN "threw" ELSE "returned"]
    /\ microtasks' = Tail(microtasks)
    /\ UNCHANGED <<apiKey, now, snapshots, cache, transactions, probe>>

(***************************************************************************)
(* PaymentService.getTransactions (lines 50-52).  Arrays are objects: the  *)
(* ledger array this.transactions is the object LedgerObject, and a caller *)
(* holds what getTransactions returned: the identity of an array, and the  *)
(* elements of that array when it is not the ledger array itself.          *)
(***************************************************************************)
LedgerObject == 0

\* Mutant: the ledger array itself is returned (return this.transactions).
getTransactions_alias(obj) == [obj |-> LedgerObject, items |-> transactions]

\* Mutant: the copy lists the newest transaction first.
getTransactions_reversed(obj) ==
    [obj |-> obj,
     items |-> [i \in 1..Len(transactions) |->
                   transactions[Len(transactions) + 1 - i]]]

\* return [...this.transactions]: a new array `obj` with the same elements.
getTransactions(obj) == [obj |-> obj, items |-> transactions]

\* The elements of the array a caller holds.
ContentsOf(snapshot) ==
    IF snapshot.obj = LedgerObject THEN transactions ELSE snapshot.items

GetTransactions ==
    /\ Len(snapshots) < MaxSnapshots
    /\ LET result == getTransactions(Len(snapshots) + 1)
       IN  snapshots' = Append(snapshots,
               [obj |-> result.obj, items |-> result.items,
                returned |-> result.items, edited |-> FALSE])
    /\ UNCHANGED <<apiKey, cache, transactions, calls, microtasks, now, probe>>

\* What a caller pushes onto an array it was given.
ForeignTransaction ==
    [id |-> 0, timestamp |-> 0,
     request |-> [amount |-> 1, currency |-> "USD", source |-> "caller",
                  email |-> "caller@example.com"],
     response |-> [transactionId |-> 0, provider |-> "none",
                   status |-> "blocked", riskScore |-> 0,
                   explanation |-> "added by the caller"]]

\* The array `snapshot` after the caller's push or pop.
WriteArray(i, elements) ==
    IF snapshots[i].obj = LedgerObject
    THEN /\ transactions' = elements
         /\ snapshots' = [snapshots EXCEPT ![i].edited = TRUE]
    ELSE /\ transactions' = transactions
         /\ snapshots' = [snapshots EXCEPT ![i].edited = TRUE,
                                           ![i].items = elements]

\* A caller pushes an element onto an array getTransactions returned to it.
CallerPush(i) ==
    /\ i \in 1..Len(snapshots)
    /\ ~snapshots[i].edited
    /\ WriteArray(i, Append(ContentsOf(snapshots[i]), ForeignTransaction))
    /\ UNCHANGED <<apiKey, cache, calls, microtasks, now, probe>>

\* A caller pops the last element of an array getTransactions returned to it.
CallerPop(i) ==
    /\ i \in 1..Len(snapshots)
    /\ ~snapshots[i].edited
    /\ ContentsOf(snapshots[i]) # <<>>
    /\ LET elements == ContentsOf(snapshots[i])
       IN  WriteArray(i, SubSeq(elements, 1, Len(elements) - 1))
    /\ UNCHANGED <<apiKey, cache, calls, microtasks, now, probe>>

(***************************************************************************)
(* Time passes: the clock read by new Date() advances.                     *)
(***************************************************************************)
Tick ==
    /\ now < MaxNow
    /\ now' = now + 1
    /\ UNCHANGED <<apiKey, cache, transactions, calls, microtasks, snapshots,
                   probe>>

(***************************************************************************)
(* Calls of the pure functions: one call per behaviour                     *)
(***************************************************************************)
ProbeCalculateRiskScore(request) ==
    /\ probe = NoProbe
    /\ probe' = [op |-> "calculateRiskScore", request |-> request,
                 result |-> calculateRiskScore(request)]
    /\ UNCHANGED <<apiKey, now, snapshots, cache, transactions, calls, microtasks>>

ProbeShouldBlock(riskScore) ==
    /\ probe = NoProbe
    /\ probe' = [op |-> "shouldBlock", riskScore |-> riskScore,
                 result |-> shouldBlock(riskScore)]
    /\ UNCHANGED <<apiKey, now, snapshots, cache, transactions, calls, microtasks>>

(***************************************************************************)
(* validation.ts: chargeRequestSchema and validateChargeRequest.  A JSON   *)
(* body is a record of its keys; a JSON number is [int, frac], frac being  *)
(* its hundredths (100.5 is [int |-> 100, frac |-> 50]); the other values  *)
(* are strings.  Joi runs with its defaults: values are converted before   *)
(* the rules are applied, unknown keys are not allowed, the top-level      *)
(* domain of an email has to be a registered one.                          *)
(***************************************************************************)
Number(i) == [int |-> i, frac |-> 0]

upperChar(c) ==
    CASE c = "a" -> "A" [] c = "b" -> "B" [] c = "c" -> "C" [] c = "d" -> "D"
      [] c = "e" -> "E" [] c = "f" -> "F" [] c = "g" -> "G" [] c = "h" -> "H"
      [] c = "i" -> "I" [] c = "j" -> "J" [] c = "k" -> "K" [] c = "l" -> "L"
      [] c = "m" -> "M" [] c = "n" -> "N" [] c = "o" -> "O" [] c = "p" -> "P"
      [] c = "q" -> "Q" [] c = "r" -> "R" [] c = "s" -> "S" [] c = "t" -> "T"
      [] c = "u" -> "U" [] c = "v" -> "V" [] c = "w" -> "W" [] c = "x" -> "X"
      [] c = "y" -> "Y" [] c = "z" -> "Z" [] OTHER -> c

RECURSIVE toUpperCase(_)
toUpperCase(s) ==
    IF Len(s) = 0 THEN ""
    ELSE upperChar(SubSeq(s, 1, 1)) \o toUpperCase(SubSeq(s, 2, Len(s)))

UpperCaseLetters ==
    { "A", "B", "C", "D", "E", "F", "G", "H", "I", "J", "K", "L", "M",
      "N", "O", "P", "Q", "R", "S", "T", "U", "V", "W", "X", "Y", "Z" }

\* /^[A-Z]{3}$/
matchesCurrencyPattern(s) ==
    Len(s) = 3 /\ \A i \in 1..3 : SubSeq(s, i, i) \in UpperCaseLetters

\* The registered top-level domains that the modelled emails use.
Tlds == {"com", "org", "ru", "uk", "tk", "ml", "ga"}

\* Joi.string().email(): one "@", a local part, and a domain of two or more
\* non-empty segments that ends in a registered top-level domain.
isEmail(s) ==
    LET ats == {i \in 1..Len(s) : SubSeq(s, i, i) = "@"}
    IN  /\ Cardinality(ats) = 1
        /\ LET at == CHOOSE i \in ats : TRUE
               domain == SubSeq(s, at + 1, Len(s))
               dots == {i \in 1..Len(domain) : SubSeq(domain, i, i) = "."}
           IN  /\ at > 1
               /\ dots # {}
               /\ 1 \notin dots /\ Len(domain) \notin dots
               /\ \A i \in dots : i + 1 \notin dots
               /\ LET last == CHOOSE i \in dots : \A j \in dots : j <= i
                  IN  SubSeq(domain, last + 1, Len(domain)) \in Tlds

RequiredKeys == {"amount", "currency", "source", "email"}

\* Mutant: the amount has no lower bound (min(1) left out).
validateChargeRequest_noMin(data) ==
    IF /\ DOMAIN data = RequiredKeys
       /\ data.amount.frac = 0
       /\ data.amount.int <= 10000000
       /\ matchesCurrencyPattern(toUpperCase(data.currency))
       /\ Len(data.source) >= 1 /\ Len(data.source) <= 100
       /\ isEmail(data.email)
    THEN [error |-> FALSE,
          value |-> [amount |-> data.amount.int,
                     currency |-> toUpperCase(data.currency),
                     source |-> data.source, email |-> data.email]]
    ELSE [error |-> TRUE, value |-> data]

\* Mutant: the upper bound of the amount is exclusive.
validateChargeRequest_maxExclusive(data) ==
    IF /\ DOMAIN data = RequiredKeys
       /\ data.amount.frac = 0
       /\ data.amount.int >= 1 /\ data.amount.int < 10000000
       /\ matchesCurrencyPattern(toUpperCase(data.currency))
       /\ Len(data.source) >= 1 /\ Len(data.source) <= 100
       /\ isEmail(data.email)
    THEN [error |-> FALSE,
          value |-> [amount |-> data.amount.int,
                     currency |-> toUpperCase(data.currency),
                     source |-> data.source, email |-> data.email]]
    ELSE [error |-> TRUE, value |-> data]

\* { error, value }: value is the converted request when there is no error.
validateChargeRequest(data) ==
    IF /\ DOMAIN data = RequiredKeys
       /\ data.amount.frac = 0
       /\ data.amount.int >= 1 /\ data.amount.int <= 10000000
       /\ matchesCurrencyPattern(toUpperCase(data.currency))
       /\ Len(data.source) >= 1 /\ Len(data.source) <= 100
       /\ isEmail(data.email)
    THEN [error |-> FALSE,
          value |-> [amount |-> data.amount.int,
                     currency |-> toUpperCase(data.currency),
                     source |-> data.source, email |-> data.email]]
    ELSE [error |-> TRUE, value |-> data]

\* One call of validateChargeRequest.
ProbeValidateChargeRequest(data) ==
    /\ probe = NoProbe
    /\ probe' = [op |-> "validateChargeRequest", data |-> data,
                 result |-> validateChargeRequest(data)]
    /\ UNCHANGED <<apiKey, now, snapshots, cache, transactions, calls, microtasks>>

(***************************************************************************)
(* app.ts, app.post('/charge') (lines 15-31): the handler up to its        *)
(* response with status 400 or to the await of processCharge, and its      *)
(* continuation, which answers 200 with the response or 500 from the catch *)
(* block.  The continuation writes the HTTP response only.                 *)
(***************************************************************************)
PostCharge(c, body) ==
    /\ NextToInvoke(c)
    /\ LET result == validateChargeRequest(body)
       IN  IF result.error
           THEN /\ calls' = [calls EXCEPT ![c] =
                       [pc |-> "responded", kind |-> "postCharge",
                        body |-> body, httpStatus |-> 400,
                        externalCalls |-> 0]]
                /\ UNCHANGED <<cache, microtasks>>
           ELSE EnterGenerateExplanation(c,
                    [body |-> body, httpStatus |-> 0]
                        @@ processChargeStart(c, result.value))
    /\ UNCHANGED <<apiKey, now, snapshots, transactions, probe>>

ResumePostCharge(c) ==
    /\ calls[c].pc \in {"returned", "threw"}
    /\ calls[c].httpStatus = 0
    /\ calls' = [calls EXCEPT ![c].httpStatus =
                    IF calls[c].pc = "threw" THEN 500 ELSE 200]
    /\ UNCHANGED <<apiKey, cache, transactions, microtasks, now, snapshots,
                   probe>>

\* The decision of processCharge for one request: what lines 11-22 compute
\* before the explanation step.
ProbeProcessCharge(request) ==
    /\ probe = NoProbe
    /\ probe' = [op |-> "processCharge", request |-> request,
                 result |-> processChargeStart(1, request)]
    /\ UNCHANGED <<apiKey, now, snapshots, cache, transactions, calls, microtasks>>

\* Two calls of calculateRiskScore and shouldBlock: a request, and the same
\* request with an amount that is not smaller.
ProbeScorePair(request, amount) ==
    /\ probe = NoProbe
    /\ request.amount <= amount
    /\ LET larger == [request EXCEPT !.amount = amount]
           score1 == calculateRiskScore(request)
           score2 == calculateRiskScore(larger)
       IN  probe' = [op |-> "scorePair", request |-> request,
                     larger |-> larger,
                     result |-> [riskScore |-> score1,
                                 isBlocked |-> shouldBlock(score1)],
                     resultLarger |-> [riskScore |-> score2,
                                       isBlocked |-> shouldBlock(score2)]]
    /\ UNCHANGED <<apiKey, now, snapshots, cache, transactions, calls, microtasks>>

\* generateFallbackExplanation is private: it is reached through
\* generateExplanation with no usable key and an empty cache, which returns
\* its result unchanged.
ProbeFallback(request, riskScore, provider, isBlocked) ==
    /\ probe = NoProbe
    /\ probe' = [op |-> "generateFallbackExplanation", request |-> request,
                 riskScore |-> riskScore, provider |-> provider,
                 isBlocked |-> isBlocked,
                 result |-> generateFallbackExplanation(request, riskScore,
                                                        provider, isBlocked)]
    /\ UNCHANGED <<apiKey, now, snapshots, cache, transactions, calls, microtasks>>

(***************************************************************************)
(* Specifications                                                          *)
(***************************************************************************)
Req(amount, email) ==
    [amount |-> amount, currency |-> "USD", source |-> "tok_test",
     email |-> email]

\* Requests of the pipeline, with scores 0, 0.3, 0.4, 0.5 and 1.0 (capped).
ChargeRequests ==
    { Req(1000, "user@gmail.com"), Req(60000, "user@gmail.com"),
      Req(1000, "user@mail.ru"), Req(150000, "user@gmail.com"),
      Req(200000, "temp@test.com") }

\* Arguments of the direct generateExplanation calls.
ExplainRequests == { Req(1000, "user@example.com") }

\* <<riskScore, provider, isBlocked>>: two decisions that differ in the
\* provider only, and a blocked one.
ExplainArgs == { <<15, "stripe", FALSE>>, <<15, "paypal", FALSE>>,
                 <<50, Null, TRUE>> }

\* Arguments of the fallback explanation: amounts of $0.01, $10.00, $10.50
\* and $5000.00, every score, and <<provider, isBlocked>>.
FallbackAmounts == {1, 1000, 1050, 500000}

FallbackDecisions == { <<"stripe", FALSE>>, <<"paypal", FALSE>>, <<Null, TRUE>> }

\* The pure functions, called on their own.
\* The amounts of the validation tests: -100, 0, 0.5, 1, 100.5, 1000,
\* 5000000, 10000000, 10000000.5 and 10000001.
ProbeAmounts ==
    { Number(0 - 100), Number(0), [int |-> 0, frac |-> 50], Number(1),
      [int |-> 100, frac |-> 50], Number(1000), Number(5000000),
      Number(10000000), [int |-> 10000000, frac |-> 50], Number(10000001) }

\* Bodies with each of these amounts and three valid other fields, the bodies
\* that lack one required field, and a body with one field too many.
ProbeBodies ==
    { [amount |-> amount, currency |-> "USD", source |-> "tok_test",
       email |-> "user@gmail.com"] : amount \in ProbeAmounts }
      \cup { [currency |-> "USD", source |-> "tok_test",
              email |-> "user@gmail.com"],
             [amount |-> Number(1000), source |-> "tok_test",
              email |-> "user@gmail.com"],
             [amount |-> Number(1000), currency |-> "USD",
              email |-> "user@gmail.com"],
             [amount |-> Number(1000), currency |-> "USD",
              source |-> "tok_test"],
             [amount |-> Number(1000), currency |-> "USD",
              source |-> "tok_test", email |-> "user@gmail.com",
              extraField |-> "should not be allowed"] }

NextPure ==
    \/ \E request \in ProbeRequests : ProbeCalculateRiskScore(request)
    \/ \E riskScore \in ProbeScores : ProbeShouldBlock(riskScore)
    \/ \E request \in ProbeRequests : ProbeProcessCharge(request)
    \/ \E request \in ProbeRequests, amount \in Amounts :
           ProbeScorePair(request, amount)
    \/ \E data \in ProbeBodies : ProbeValidateChargeRequest(data)
    \/ \E amount \in FallbackAmounts, riskScore \in ProbeScores,
          decision \in FallbackDecisions :
           ProbeFallback(Req(amount, "user@example.com"), riskScore,
                         decision[1], decision[2])

SpecPure == Init /\ [][NextPure]_vars

\* The charge pipeline: concurrent invocations of processCharge.
Next ==
    \/ \E c \in Calls, request \in ChargeRequests :
           InvokeProcessCharge(c, request)
    \/ \E c \in Calls, reply \in Replies : SettleCreate(c, reply)
    \/ ResumeGenerateExplanation
    \/ ResumeProcessCharge

Spec == Init /\ [][Next]_vars

\* The program's own steps are taken when they are enabled; nothing obliges
\* the external service to answer.
FairSpec ==
    Spec /\ WF_vars(ResumeGenerateExplanation) /\ WF_vars(ResumeProcessCharge)

\* The ledger and its readers: processCharge calls, getTransactions calls and
\* callers that change the arrays they were given.
LedgerRequests == { Req(1000, "user@gmail.com"), Req(150000, "user@gmail.com") }

LedgerReplies ==
    { [kind |-> "content", content |-> "AI explanation one"],
      [kind |-> "error"] }

NextLedger ==
    \/ \E c \in Calls, request \in LedgerRequests :
           InvokeProcessCharge(c, request)
    \/ \E c \in Calls, reply \in LedgerReplies : SettleCreate(c, reply)
    \/ ResumeGenerateExplanation
    \/ ResumeProcessCharge
    \/ GetTransactions
    \/ \E i \in 1..MaxSnapshots : CallerPush(i)
    \/ \E i \in 1..MaxSnapshots : CallerPop(i)

SpecLedger == Init /\ [][NextLedger]_vars

\* The charge pipeline and the readers of its ledger, with a clock that
\* advances between any two steps.
TimedRequests == { Req(1000, "user@gmail.com") }

NextTimed ==
    \/ \E c \in Calls, request \in TimedRequests :
           InvokeProcessCharge(c, request)
    \/ \E c \in Calls, reply \in LedgerReplies : SettleCreate(c, reply)
    \/ ResumeGenerateExplanation
    \/ ResumeProcessCharge
    \/ GetTransactions
    \/ Tick

SpecTimed == Init /\ [][NextTimed]_vars

\* Scoring inside and outside the pipeline: requests that differ in currency
\* and source only, and calculateRiskScore called on its own at any moment.
ScoreRequests ==
    { Req(60000, "user@gmail.com"),
      [amount |-> 60000, currency |-> "EUR", source |-> "tok_other",
       email |-> "user@gmail.com"],
      Req(1000, "user@mail.ru") }

NextScore ==
    \/ \E c \in Calls, request \in ScoreRequests :
           InvokeProcessCharge(c, request)
    \/ \E c \in Calls, reply \in LedgerReplies : SettleCreate(c, reply)
    \/ ResumeGenerateExplanation
    \/ ResumeProcessCharge
    \/ \E request \in ScoreRequests : ProbeCalculateRiskScore(request)

SpecScore == Init /\ [][NextScore]_vars

\* The HTTP front: POST /charge with bodies that pass validation (the second
\* after conversion of its currency) and bodies that fail it.
ValidBodies ==
    { [amount |-> Number(1000), currency |-> "USD", source |-> "tok_test",
       email |-> "user@gmail.com"],
      [amount |-> Number(150000), currency |-> "usd", source |-> "tok_test",
       email |-> "user@gmail.com"] }

InvalidBodies ==
    { [amount |-> Number(0), currency |-> "USD", source |-> "tok_test",
       email |-> "user@gmail.com"],
      [amount |-> Number(0 - 100), currency |-> "USD", source |-> "tok_test",
       email |-> "user@gmail.com"],
      [amount |-> Number(10000001), currency |-> "USD", source |-> "tok_test",
       email |-> "user@gmail.com"],
      [amount |-> [int |-> 100, frac |-> 50], currency |-> "USD",
       source |-> "tok_test", email |-> "user@gmail.com"],
      [amount |-> Number(1000), currency |-> "US", source |-> "tok_test",
       email |-> "user@gmail.com"],
      [amount |-> Number(1000), currency |-> "USD", source |-> "",
       email |-> "user@gmail.com"],
      [amount |-> Number(1000), currency |-> "USD", source |-> "tok_test",
       email |-> "not-an-email"],
      [amount |-> Number(1000), currency |-> "USD", source |-> "tok_test"],
      [amount |-> Number(1000), currency |-> "USD", source |-> "tok_test",
       email |-> "user@gmail.com", extraField |-> "x"] }

NextHttp ==
    \/ \E c \in Calls, body \in ValidBodies \cup InvalidBodies :
           PostCharge(c, body)
    \/ \E c \in Calls, reply \in LedgerReplies : SettleCreate(c, reply)
    \/ ResumeGenerateExplanation
    \/ ResumeProcessCharge
    \/ \E c \in Calls : ResumePostCharge(c)

SpecHttp == Init /\ [][NextHttp]_vars

\* Charges at and above the very-large-amount boundary, with a clean, a
\* deny-listed and a pattern email.
LargeAmountRequests ==
    { Req(100000, "user@gmail.com"), Req(100001, "user@gmail.com"),
      Req(100001, "user@mail.ru"), Req(9999999, "temp@gmail.com") }

NextLargeAmount ==
    \/ \E c \in Calls, request \in LargeAmountRequests :
           InvokeProcessCharge(c, request)
    \/ \E c \in Calls, reply \in LedgerReplies : SettleCreate(c, reply)
    \/ ResumeGenerateExplanation
    \/ ResumeProcessCharge

SpecLargeAmount == Init /\ [][NextLargeAmount]_vars

\* LLMService on its own: concurrent direct calls of generateExplanation.
NextLLM ==
    \/ \E c \in Calls, request \in ExplainRequests, args \in ExplainArgs :
           InvokeGenerateExplanation(c, request, args[1], args[2], args[3])
    \/ \E c \in Calls, reply \in Replies : SettleCreate(c, reply)
    \/ ResumeGenerateExplanation
    \/ ResumeCaller

SpecLLM == Init /\ [][NextLLM]_vars

(***************************************************************************)
(* Properties                                                              *)
(***************************************************************************)
\* The emails of the input set that trigger each email signal, worked out
\* by hand from the deny list and the patterns.
DomainSignalEmails ==
    { "user@mail.ru", "USER@MAIL.RU", "user@test.com", "user@x.tk",
      "user@x.ml", "user@x.ga", "temp@test.com", "a.ru@gmail.com" }

PatternSignalEmails ==
    { "temp@gmail.com", "Fake@gmail.com", "x@faketest.org", "temp@test.com" }

SignalSum(request) ==
    (IF request.amount > 50000 THEN 30 ELSE 0)
  + (IF request.amount > 100000 THEN 20 ELSE 0)
  + (IF request.email \in DomainSignalEmails THEN 40 ELSE 0)
  + (IF request.email \in PatternSignalEmails THEN 30 ELSE 0)

\* C1: calculateRiskScore returns min(S, 1.0), S being the sum of +0.3 for
\* amount > 50000, a further +0.2 for amount > 100000, +0.4 when the
\* lower-cased email contains a deny-listed substring and +0.3 when it
\* contains 'temp' or 'fake'; the checks are independent and cumulative
\* (1000/clean: 0.0, 60000: 0.3, 150000: 0.5, 200000 with temp@test.com: 1.0).
C1_RiskScoreIsCappedSum ==
    probe.op = "calculateRiskScore" =>
        LET request == probe.request
            email == toLowerCase(request.email)
        IN  /\ (request.email \in DomainSignalEmails)
                   <=> (\E d \in {".ru", "test.com", ".tk", ".ml", ".ga"} :
                            includes(email, d))
            /\ (request.email \in PatternSignalEmails)
                   <=> (includes(email, "temp") \/ includes(email, "fake"))
            /\ probe.result = Min(SignalSum(request), 100)
            /\ (request.email = "user@gmail.com" =>
                   /\ request.amount = 1000 => probe.result = 0
                   /\ request.amount = 60000 => probe.result = 30
                   /\ request.amount = 150000 => probe.result = 50)
            /\ (request.email = "temp@test.com" /\ request.amount = 200000
                   => SignalSum(request) = 120 /\ probe.result = 100)

C1_Witness ==
    /\ probe.op = "calculateRiskScore"
    /\ probe.request.amount = 200000
    /\ probe.request.email = "temp@test.com"
    /\ probe.result = 100

\* C2: for every request the score returned by calculateRiskScore lies
\* between 0.0 and 1.0 inclusive.
C2_RiskScoreInUnitInterval ==
    probe.op = "calculateRiskScore" => probe.result >= 0 /\ probe.result <= 100

C2_Witness ==
    /\ probe.op = "calculateRiskScore"
    /\ SignalSum(probe.request) > 100
    /\ probe.request.amount = 100001
    /\ probe.result = 100

\* C3: shouldBlock(score) is true exactly when score >= 0.5; 0.5 itself
\* blocks and every score below it does not.
C3_ShouldBlockAtHalf ==
    probe.op = "shouldBlock" =>
        /\ probe.result \in BOOLEAN
        /\ probe.result <=> (probe.riskScore >= 50)
        /\ (probe.riskScore = 50 => probe.result = TRUE)
        /\ (probe.riskScore < 50 => probe.result = FALSE)

C3_Witness ==
    probe.op = "shouldBlock" /\ probe.riskScore = 50 /\ probe.result = TRUE

\* The responses returned so far and the responses stored in the ledger.
ReturnedResponses ==
    {calls[c].response : c \in {d \in Calls : calls[d].pc = "returned"
                                             /\ calls[d].kind = "processCharge"}}

LedgerResponses == {transactions[i].response : i \in 1..Len(transactions)}

Responses == ReturnedResponses \cup LedgerResponses

\* C4: in every response of processCharge, riskScore < 0.3 goes with provider
\* 'stripe' and status 'success', 0.3 <= riskScore < 0.5 with 'paypal' and
\* 'success', and riskScore >= 0.5 with provider 'none' and status 'blocked'.
C4_RoutingByRiskScore ==
    \A r \in Responses :
        /\ r.riskScore < 30 => r.provider = "stripe" /\ r.status = "success"
        /\ (r.riskScore >= 30 /\ r.riskScore < 50)
               => r.provider = "paypal" /\ r.status = "success"
        /\ r.riskScore >= 50 => r.provider = "none" /\ r.status = "blocked"

C4_Witness ==
    /\ \E r \in ReturnedResponses : r.riskScore = 30 /\ r.provider = "paypal"
    /\ \E r \in ReturnedResponses : r.riskScore = 50 /\ r.provider = "none"

\* C5: every response returned and every response in the ledger has status
\* 'blocked' exactly when its provider is 'none', and status 'success'
\* exactly when its provider is one of the two real providers.
C5_BlockedIffNoProvider ==
    \A r \in Responses :
        /\ r.status \in {"success", "blocked"}
        /\ r.provider \in {"stripe", "paypal", "none"}
        /\ (r.status = "blocked") <=> (r.provider = "none")
        /\ (r.status = "success") <=> (r.provider \in {"stripe", "paypal"})

C5_Witness ==
    /\ \E r \in LedgerResponses : r.status = "blocked" /\ r.provider = "none"
    /\ \E r \in LedgerResponses : r.status = "success" /\ r.provider = "stripe"

\* The reply of the external call of c was a failure: a rejection or an
\* empty content.
CreateFailed(c) ==
    /\ calls[c].pc \in {"resolved", "returned", "threw"}
    /\ calls[c].externalCalls = 1
    /\ calls[c].reply.kind = "error" \/ calls[c].reply.content = ""

\* C6: generateExplanation never passes a failure of the external call on to
\* its caller and always returns a string, so processCharge never throws,
\* whatever the external call settles with.
C6_ExplanationNeverThrows ==
    \A c \in Calls :
        /\ calls[c].pc # "threw"
        /\ calls[c].pc \in {"resolved", "returned"} =>
               /\ ~calls[c].rejects
               /\ calls[c].explanation \in STRING
               /\ calls[c].explanation # ""

C6_Witness ==
    \E c \in Calls :
        /\ calls[c].pc = "returned"
        /\ calls[c].externalCalls = 1
        /\ calls[c].reply.kind = "error"
        /\ \E i \in 1..Len(transactions) :
               transactions[i].response = calls[c].response

\* C7: every invocation of processCharge eventually returns a response, even
\* when the external call never answers.
C7_EveryInvocationReturns ==
    \A c \in Calls :
        (calls[c].pc = "awaitingCreate") ~> (calls[c].pc = "returned")

FallbackOf(c) ==
    generateFallbackExplanation(calls[c].request, calls[c].riskScore,
                                calls[c].provider, calls[c].isBlocked)

KeyOf(c) == cacheKey(calls[c].request, calls[c].riskScore, calls[c].isBlocked)

\* C8: when the external call fails in any way, generateExplanation returns
\* the fallback explanation and has stored it in the cache under its key.
C8_FailureFallbackIsCached ==
    \A c \in Calls :
        CreateFailed(c) =>
            /\ calls[c].explanation = FallbackOf(c)
            /\ KeyOf(c) \in DOMAIN cache

\* C9: of two generateExplanation calls with the same (amount, email,
\* riskScore, blocked), the second starting after the first has returned,
\* the second makes no external call and returns the string of the first.
C9_SecondCallIsCacheHit ==
    \A c1, c2 \in Calls :
        ( /\ calls[c2].pc # "idle"
          /\ c1 \in calls[c2].after
          /\ KeyOf(c1) = KeyOf(c2) )
        => /\ calls[c2].externalCalls = 0
           /\ calls[c2].explanation = calls[c1].explanation

\* C10: a value stored in the cache for a key is never replaced by a
\* different string.
C10_CacheValueNeverOverwritten ==
    [][\A k \in DOMAIN cache : k \in DOMAIN cache' /\ cache'[k] = cache[k]]_vars

\* The processCharge invocations that have returned their response.
Completed ==
    {c \in Calls : calls[c].pc = "returned" /\ calls[c].kind = "processCharge"}

\* The places of the ledger that hold the transaction with identifier id.
PlacesOf(ledger, id) == {i \in 1..Len(ledger) : ledger[i].id = id}

\* C11: once N invocations of processCharge have completed, getTransactions
\* returns exactly N transactions, one per invocation, and the transaction of
\* an invocation has the transactionId of the response returned by it, its
\* request and its response.
C11_OneTransactionPerCall ==
    LET ledger == getTransactions(1).items
    IN  /\ Len(ledger) = Cardinality(Completed)
        /\ \A c \in Completed :
               /\ Cardinality(PlacesOf(ledger, calls[c].response.transactionId))
                      = 1
               /\ \A i \in PlacesOf(ledger, calls[c].response.transactionId) :
                      /\ ledger[i].request = calls[c].request
                      /\ ledger[i].response = calls[c].response

C11_Witness ==
    /\ Cardinality(Completed) = 2
    /\ Len(transactions) = 2
    /\ transactions[1].request # transactions[2].request
    /\ \E c \in Completed : calls[c].externalCalls = 1

\* The place of the transaction of the completed invocation c in the ledger.
PlaceOf(c) ==
    CHOOSE i \in 1..Len(transactions) :
        transactions[i].id = calls[c].response.transactionId

\* C12 as stated: the ledger lists the transactions in call order, whatever
\* the interleaving of the calls and the order in which their explanation
\* steps complete.
C12_LedgerInCallOrder ==
    \A c1, c2 \in Completed : c1 < c2 => PlaceOf(c1) < PlaceOf(c2)

\* C12 as amended: the transaction of the call invoked first comes first
\* when that call returned before the other was invoked, and when neither
\* call waited for the external service.
C12_LedgerInCallOrderWithoutOverlap ==
    \A c1, c2 \in Completed :
        ( /\ c1 < c2
          /\ \/ c1 \in calls[c2].after
             \/ calls[c1].externalCalls = 0 /\ calls[c2].externalCalls = 0 )
        => PlaceOf(c1) < PlaceOf(c2)

C12_Witness ==
    \E c1, c2 \in Completed :
        /\ c1 < c2
        /\ c1 \notin calls[c2].after
        /\ calls[c1].externalCalls = 0 /\ calls[c2].externalCalls = 0
        /\ PlaceOf(c1) < PlaceOf(c2)

\* C13: no two ledger entries share an id and no two returned responses share
\* a transactionId, also for identical and for concurrently processed requests.
C13_TransactionIdsUnique ==
    /\ \A i, j \in 1..Len(transactions) :
           i # j => transactions[i].id # transactions[j].id
    /\ \A c1, c2 \in Completed :
           c1 # c2 =>
               calls[c1].response.transactionId
                   # calls[c2].response.transactionId

C13_Witness ==
    \E c1, c2 \in Completed :
        /\ c1 < c2
        /\ c1 \notin calls[c2].after
        /\ calls[c1].request = calls[c2].request
        /\ calls[c1].response.transactionId # calls[c2].response.transactionId

IsPrefix(s, t) == Len(s) <= Len(t) /\ \A i \in 1..Len(s) : s[i] = t[i]

\* C14: every snapshot getTransactions returned is a prefix of every snapshot
\* it returned later and of the one it would return now: nothing is removed
\* from the ledger, reordered in it or modified after its append.
C14_LedgerAppendOnly ==
    /\ \A i, j \in 1..Len(snapshots) :
           i < j => IsPrefix(snapshots[i].returned, snapshots[j].returned)
    /\ \A i \in 1..Len(snapshots) :
           IsPrefix(snapshots[i].returned, getTransactions(0).items)

C14_Witness ==
    /\ Len(snapshots) = 2
    /\ Len(snapshots[1].returned) = 1
    /\ Len(snapshots[2].returned) = 2
    /\ snapshots[2].returned[1] = snapshots[1].returned[1]

Elements(s) == {s[i] : i \in 1..Len(s)}

\* C15: getTransactions returns a new array each time, equal in contents to
\* the ledger: the array is not changed by later processCharge calls, and a
\* caller pushing onto it or popping from it changes neither the ledger nor
\* what getTransactions returns afterwards.
C15_SnapshotIsIndependentCopy ==
    /\ \A i \in 1..Len(snapshots) :
           /\ snapshots[i].obj # LedgerObject
           /\ \A j \in 1..Len(snapshots) :
                  i # j => snapshots[i].obj # snapshots[j].obj
           /\ ~snapshots[i].edited
                  => ContentsOf(snapshots[i]) = snapshots[i].returned
           /\ ForeignTransaction \notin Elements(snapshots[i].returned)
           /\ \A j \in 1..Len(snapshots) :
                  Len(snapshots[i].returned) = Len(snapshots[j].returned)
                      => snapshots[i].returned = snapshots[j].returned
    /\ ForeignTransaction \notin Elements(transactions)
    /\ Len(transactions) = Cardinality(Completed)

C15_Witness ==
    /\ Len(snapshots) = 2
    /\ snapshots[1].edited
    /\ Len(snapshots[1].returned) = 1
    /\ Len(ContentsOf(snapshots[1])) # 1
    /\ Len(transactions) = 2
    /\ snapshots[2].returned = transactions

\* C16: when OPENAI_API_KEY is absent or "demo-key", no invocation ever makes
\* an external call or waits for one; an invocation whose key was not cached
\* returns the fallback explanation of its own arguments, and that
\* explanation is the value stored in the cache under its key.
C16_NoExternalCallWithoutKey ==
    (apiKey \in {"", "demo-key"}) =>
        \A c \in Calls :
            calls[c].pc # "idle" =>
                /\ calls[c].externalCalls = 0
                /\ calls[c].pc # "awaitingCreate"
                /\ calls[c].path \in {"hit", "fallback"}
                /\ calls[c].path = "fallback" =>
                       /\ calls[c].explanation = FallbackOf(c)
                       /\ KeyOf(c) \in DOMAIN cache
                       /\ cache[KeyOf(c)] = FallbackOf(c)

\* A call made with the placeholder key has returned the fallback, and a
\* second call with another request has returned its own.
C16_Witness ==
    /\ apiKey = "demo-key"
    /\ \E c, d \in Returned :
           /\ c # d
           /\ calls[c].request # calls[d].request
           /\ calls[c].path = "fallback" /\ calls[d].path = "fallback"
           /\ calls[c].explanation = FallbackOf(c)
           /\ Len(transactions) = 2

\* The texts the specification gives for chosen arguments, written out:
\* <<amount, score in hundredths, provider, blocked, text>>.
FallbackExamples ==
    { <<1000, 15, "stripe", FALSE,
        "Payment routed to stripe with low risk score (0.15) for $10.00 transaction.">>,
      <<1, 29, "stripe", FALSE,
        "Payment routed to stripe with low risk score (0.29) for $0.01 transaction.">>,
      <<1050, 30, "paypal", FALSE,
        "Payment routed to paypal with moderate risk score (0.30) for $10.50 transaction.">>,
      <<500000, 40, "paypal", FALSE,
        "Payment routed to paypal with moderate risk score (0.40) for $5000.00 transaction.">>,
      <<1000, 50, Null, TRUE,
        "Payment blocked due to moderate risk score (0.50) from suspicious patterns.">>,
      <<1000, 60, Null, TRUE,
        "Payment blocked due to moderate risk score (0.60) from suspicious patterns.">>,
      <<1000, 69, Null, TRUE,
        "Payment blocked due to moderate risk score (0.69) from suspicious patterns.">>,
      <<1000, 70, Null, TRUE,
        "Payment blocked due to high risk score (0.70) from suspicious patterns.">>,
      <<500000, 100, Null, TRUE,
        "Payment blocked due to high risk score (1.00) from suspicious patterns.">>,
      <<1000, 0, "stripe", FALSE,
        "Payment routed to stripe with low risk score (0.00) for $10.00 transaction.">> }

RiskLabel(score) ==
    IF score < 30 THEN "low" ELSE IF score < 70 THEN "moderate" ELSE "high"

\* C17: the fallback explanation labels a score below 0.3 low, one below 0.7
\* moderate and any other high; a blocked decision gives the "Payment
\* blocked" sentence with the label and the score to two decimals, any other
\* the "Payment routed" sentence with provider, label, score and the amount
\* in dollars to two decimals.
C17_FallbackTemplate ==
    probe.op = "generateFallbackExplanation" =>
        /\ probe.result =
              IF probe.isBlocked
              THEN "Payment blocked due to " \o RiskLabel(probe.riskScore)
                       \o " risk score (" \o toFixed2(probe.riskScore)
                       \o ") from suspicious patterns."
              ELSE "Payment routed to " \o probe.provider \o " with "
                       \o RiskLabel(probe.riskScore) \o " risk score ("
                       \o toFixed2(probe.riskScore) \o ") for $"
                       \o toFixed2(probe.request.amount) \o " transaction."
        /\ \A e \in FallbackExamples :
               (/\ probe.request.amount = e[1] /\ probe.riskScore = e[2]
                /\ probe.provider = e[3] /\ probe.isBlocked = e[4])
                   => probe.result = e[5]

\* A blocked decision with score 0.5 got the moderate label.
C17_Witness ==
    /\ probe.op = "generateFallbackExplanation"
    /\ probe.isBlocked /\ probe.riskScore = 50
    /\ probe.result =
          "Payment blocked due to moderate risk score (0.50) from suspicious patterns."

\* The part of an email after its "@" (the whole text when there is none).
RECURSIVE DomainPortion(_)
DomainPortion(email) ==
    IF Len(email) = 0 THEN ""
    ELSE IF SubSeq(email, 1, 1) = "@" THEN SubSeq(email, 2, Len(email))
         ELSE DomainPortion(SubSeq(email, 2, Len(email)))

\* C18: the suspicious-domain signal adds 0.4 to the score if and only if
\* the part of the email after "@", in lower case, contains one of ".ru",
\* "test.com", ".tk", ".ml", ".ga".
C18_DomainSignalFromDomainPortion ==
    probe.op = "calculateRiskScore" =>
        LET request == probe.request
            domain == DomainPortion(toLowerCase(request.email))
            signal == \E d \in {".ru", "test.com", ".tk", ".ml", ".ga"} :
                          includes(domain, d)
        IN  probe.result =
                Min( (IF request.amount > 50000 THEN 30 ELSE 0)
                   + (IF request.amount > 100000 THEN 20 ELSE 0)
                   + (IF signal THEN 40 ELSE 0)
                   + (IF request.email \in PatternSignalEmails THEN 30 ELSE 0),
                     100 )

\* The score of each (amount, email) of ScoreRequests, worked out by hand.
ScoreOf(amount, email) ==
    CASE amount = 60000 /\ email = "user@gmail.com" -> 30
      [] amount = 1000 /\ email = "user@mail.ru" -> 40

\* C19: the risk score depends on amount and email only: every invocation,
\* every ledger entry and every direct call of calculateRiskScore carries the
\* score of its (amount, email), whatever the currency, the source, the
\* calls made before and the contents of cache and ledger; and a direct call
\* of calculateRiskScore leaves cache, ledger and calls as they were.
C19_ScoreDependsOnAmountAndEmail ==
    [][ /\ \A c \in Calls :
              calls'[c].pc # "idle" =>
                  calls'[c].riskScore =
                      ScoreOf(calls'[c].request.amount, calls'[c].request.email)
        /\ \A i \in 1..Len(transactions') :
              transactions'[i].response.riskScore =
                  ScoreOf(transactions'[i].request.amount,
                          transactions'[i].request.email)
        /\ probe' # probe =>
              /\ probe'.result =
                     ScoreOf(probe'.request.amount, probe'.request.email)
              /\ UNCHANGED <<apiKey, cache, transactions, calls, microtasks,
                             now, snapshots>> ]_vars

\* Two requests that differ in currency and source only got the same score,
\* the second after the first was in the ledger and the cache, and
\* calculateRiskScore called after both gave that score again.
C19_Witness ==
    /\ \E c, d \in Returned :
           /\ c \in calls[d].after
           /\ calls[c].request.amount = calls[d].request.amount
           /\ calls[c].request.email = calls[d].request.email
           /\ calls[c].request.currency # calls[d].request.currency
           /\ calls[c].request.source # calls[d].request.source
           /\ calls[c].riskScore = calls[d].riskScore
           /\ probe.op = "calculateRiskScore"
           /\ probe.request.email = calls[c].request.email
           /\ probe.result = calls[c].riskScore
    /\ Len(transactions) = 2
    /\ cache # <<>>

\* C20: a POST /charge whose body fails validation is answered with status
\* 400 in the step that receives it: processCharge is not invoked for it, no
\* external call is made, cache, ledger and pending continuations stay as
\* they were, and nothing happens for it afterwards; every ledger entry
\* belongs to a request whose body passed validation.
C20_InvalidBodyRejectedBeforePipeline ==
    [][ /\ \A c \in Calls :
              (/\ calls[c].pc = "idle" /\ calls'[c].pc # "idle"
               /\ calls'[c].body \in InvalidBodies)
                  => /\ calls'[c].pc = "responded"
                     /\ calls'[c].httpStatus = 400
                     /\ calls'[c].kind # "processCharge"
                     /\ calls'[c].externalCalls = 0
                     /\ UNCHANGED <<cache, transactions, microtasks>>
        /\ \A c \in Calls :
              calls[c].pc = "responded" => calls'[c] = calls[c]
        /\ \A i \in 1..Len(transactions') :
              \E c \in Calls :
                  /\ calls'[c].pc # "idle"
                  /\ calls'[c].body \in ValidBodies
                  /\ calls'[c].kind = "processCharge"
                  /\ calls'[c].transactionId = transactions'[i].id
                  /\ calls'[c].request = transactions'[i].request ]_vars

\* A body with amount 0 was answered 400 after an earlier valid request had
\* been answered 200 and recorded: the ledger holds that one entry only.
C20_Witness ==
    \E c, d \in Calls :
        /\ d < c
        /\ calls[d].pc = "returned" /\ calls[d].httpStatus = 200
        /\ calls[c].pc = "responded" /\ calls[c].httpStatus = 400
        /\ calls[c].body.amount = Number(0)
        /\ Len(transactions) = 1
        /\ transactions[1].id = calls[d].transactionId
        /\ cache # <<>>

\* The processCharge invocations that are waiting for their explanation.
Waiting ==
    {c \in Calls : /\ calls[c].pc \in {"awaitingCreate", "settled", "resolved"}
                   /\ calls[c].kind = "processCharge"}

\* C21: a response is returned after the ledger append and the append comes
\* after the explanation: the transaction of every returned response is in
\* the ledger, with the score and the explanation obtained before, and an
\* invocation that still waits for its explanation has no entry in the
\* ledger or in any array getTransactions has returned.
C21_AppendBetweenExplanationAndResponse ==
    /\ \A c \in Completed :
           /\ PlacesOf(getTransactions(0).items,
                       calls[c].response.transactionId) # {}
           /\ calls[c].response.riskScore = calls[c].riskScore
           /\ calls[c].response.explanation = calls[c].explanation
           /\ calls[c].explanation # ""
    /\ \A c \in Waiting :
           /\ PlacesOf(getTransactions(0).items, calls[c].transactionId) = {}
           /\ \A i \in 1..Len(snapshots) :
                  PlacesOf(snapshots[i].returned, calls[c].transactionId) = {}

\* One invocation has returned and is in a snapshot taken while another
\* invocation waits for the external service.
C21_Witness ==
    \E c \in Completed, d \in Waiting :
        /\ calls[d].pc = "awaitingCreate"
        /\ Len(snapshots) >= 1
        /\ c \notin calls[d].after
        /\ PlacesOf(snapshots[Len(snapshots)].returned,
                    calls[c].response.transactionId) # {}
        /\ Len(transactions) = 1

\* The place of the transaction of the completed invocation c in an array
\* that holds it.
PlaceIn(ledger, c) ==
    CHOOSE i \in PlacesOf(ledger, calls[c].response.transactionId) : TRUE

Holds(ledger, c) == PlacesOf(ledger, calls[c].response.transactionId) # {}

\* C22: when invocation A has returned before invocation B is invoked, the
\* transaction of A comes before the transaction of B in the ledger and in
\* every array getTransactions has returned that holds both.
C22_LedgerOrderRespectsHappensBefore ==
    \A a, b \in Completed :
        a \in calls[b].after =>
            /\ PlaceIn(getTransactions(0).items, a)
                   < PlaceIn(getTransactions(0).items, b)
            /\ \A i \in 1..Len(snapshots) :
                   (Holds(snapshots[i].returned, a)
                        /\ Holds(snapshots[i].returned, b))
                       => PlaceIn(snapshots[i].returned, a)
                              < PlaceIn(snapshots[i].returned, b)

\* A returned after waiting for the external service, B was invoked after
\* that, and a snapshot holds both transactions.
C22_Witness ==
    \E a, b \in Completed :
        /\ a \in calls[b].after
        /\ calls[a].externalCalls = 1
        /\ \E i \in 1..Len(snapshots) :
               /\ Holds(snapshots[i].returned, a)
               /\ Holds(snapshots[i].returned, b)

\* C23: processCharge calls selectProvider only after shouldBlock has
\* returned false: never for a blocked decision, once for any other, and so
\* only with a score below 0.5.
C23_RouterNotCalledWhenBlocked ==
    \A c \in Calls :
        (calls[c].pc # "idle" /\ calls[c].kind = "processCharge") =>
            /\ calls[c].selectProviderCalls =
                   IF calls[c].riskScore >= 50 THEN <<>>
                   ELSE <<calls[c].riskScore>>
            /\ calls[c].status = "blocked" => calls[c].selectProviderCalls = <<>>
            /\ \A i \in 1..Len(calls[c].selectProviderCalls) :
                   calls[c].selectProviderCalls[i] < 50

\* A charge with score 0.5 was blocked without a call of selectProvider and
\* a charge with score 0.4 was routed by one.
C23_Witness ==
    \E c, d \in Completed :
        /\ calls[c].riskScore = 50 /\ calls[c].response.status = "blocked"
        /\ calls[c].selectProviderCalls = <<>>
        /\ calls[d].riskScore = 40 /\ calls[d].response.provider = "paypal"
        /\ calls[d].selectProviderCalls = <<40>>

\* C24: an invocation of processCharge issues one external call at most;
\* once that call has settled the invocation never waits for the external
\* service again, and when the call was rejected or came back without a
\* text the invocation goes on to return the fallback explanation.
C24_NoRetry ==
    [][ \A c \in Calls :
            /\ calls'[c].pc # "idle" => calls'[c].externalCalls \in {0, 1}
            /\ calls[c].pc \in {"settled", "resolved", "returned"} =>
                   /\ calls'[c].pc \in {"settled", "resolved", "returned"}
                   /\ calls'[c].externalCalls = calls[c].externalCalls
            /\ (/\ calls[c].pc = "settled" /\ calls'[c].pc # "settled"
                /\ calls[c].reply \in {[kind |-> "error"],
                                       [kind |-> "content", content |-> ""]})
                   =>
                   /\ calls'[c].pc = "resolved"
                   /\ calls'[c].explanation =
                          generateFallbackExplanation(
                              calls[c].request, calls[c].riskScore,
                              calls[c].provider, calls[c].isBlocked)
            /\ (calls[c].pc = "resolved" /\ calls'[c].pc # "resolved") =>
                   /\ calls'[c].pc = "returned"
                   /\ calls'[c].response.explanation = calls[c].explanation
      ]_vars

\* An invocation whose external call was rejected has returned the fallback
\* explanation after one external call.
C24_Witness ==
    \E c \in Completed :
        /\ calls[c].externalCalls = 1
        /\ calls[c].reply.kind = "error"
        /\ calls[c].response.explanation = FallbackOf(c)

\* C25: a key that is in the cache is in the cache after every step, whatever
\* calls of generateExplanation are made and however their external calls
\* settle; a step in which a rejected external call is handled leaves the
\* whole cache as it was.
C25_CacheNeverLosesEntries ==
    [][ /\ \A k \in DOMAIN cache : k \in DOMAIN cache'
        /\ \A c \in Calls :
              (/\ calls[c].pc = "settled" /\ calls'[c].pc # "settled"
               /\ calls[c].reply.kind = "error")
                  => cache' = cache ]_vars

\* The external call of one invocation was rejected while the cache held
\* an entry for its key, stored by an overlapping invocation; the entry is
\* still there.
C25_Witness ==
    \E c, d \in Calls :
        /\ c # d
        /\ calls[c].pc \in {"resolved", "returned"}
        /\ calls[c].externalCalls = 1 /\ calls[c].reply.kind = "error"
        /\ calls[d].pc \in {"resolved", "returned"}
        /\ calls[d].externalCalls = 1 /\ calls[d].reply.kind = "content"
        /\ calls[d].reply.content # ""
        /\ KeyOf(c) = KeyOf(d)
        /\ KeyOf(c) \in DOMAIN cache
        /\ cache[KeyOf(c)] = calls[d].explanation

\* C26: a call of generateExplanation whose (amount, email, riskScore,
\* blocked) is in the cache returns the cached explanation at once, without
\* an external call and without a write to the cache, whatever its provider
\* argument is: a call that differs from an earlier one in the provider only
\* returns the explanation of the earlier one.
C26_ProviderNotInCacheKey ==
    [][ \A d \in Calls :
            (/\ calls[d].pc = "idle" /\ calls'[d].pc # "idle"
             /\ cacheKey(calls'[d].request, calls'[d].riskScore,
                         calls'[d].isBlocked) \in DOMAIN cache)
                => /\ calls'[d].pc = "resolved"
                   /\ calls'[d].externalCalls = 0
                   /\ calls'[d].explanation =
                          cache[cacheKey(calls'[d].request, calls'[d].riskScore,
                                         calls'[d].isBlocked)]
                   /\ cache' = cache ]_vars

\* A call with provider paypal has returned the explanation that an earlier
\* call with provider stripe had stored.
C26_Witness ==
    \E c, d \in Returned :
        /\ c \in calls[d].after
        /\ calls[c].provider = "stripe" /\ calls[d].provider = "paypal"
        /\ calls[c].request = calls[d].request
        /\ calls[c].riskScore = calls[d].riskScore
        /\ calls[c].isBlocked = calls[d].isBlocked
        /\ calls[d].externalCalls = 0
        /\ calls[d].explanation =
               "Payment routed to stripe with low risk score (0.15) for $10.00 transaction."

\* The pairs of a request and the response returned for it.
Outcomes ==
    {<<calls[c].request, calls[c].response>> : c \in Completed}
        \cup {<<transactions[i].request, transactions[i].response>> :
                  i \in 1..Len(transactions)}

\* C27: a request with an amount above 100000 gets riskScore >= 0.5, status
\* 'blocked' and provider 'none', whatever its email; every response with
\* status 'success' belongs to a request with an amount of 100000 at most.
C27_VeryLargeAmountIsBlocked ==
    \A o \in Outcomes :
        /\ o[1].amount > 100000 =>
               /\ o[2].riskScore >= 50
               /\ o[2].status = "blocked"
               /\ o[2].provider = "none"
        /\ o[2].status = "success" => o[1].amount <= 100000

\* 100001 with a clean email was blocked with score 0.5, and 100000 with the
\* same email was routed.
C27_Witness ==
    \E o, p \in Outcomes :
        /\ o[1].amount = 100001 /\ o[1].email = "user@gmail.com"
        /\ o[2].riskScore = 50 /\ o[2].status = "blocked"
        /\ o[2].provider = "none"
        /\ p[1].amount = 100000 /\ p[2].status = "success"

\* The processCharge invocations that have reached generateExplanation.
Invoked == {c \in Calls : calls[c].pc # "idle" /\ calls[c].kind = "processCharge"}

\* C28: in the pipeline the provider follows from riskScore and blocked, so
\* two invocations with the same cache key pass the same provider; and with
\* no usable API key the explanation of a 'success' response is the routed
\* sentence with the provider of that response, the explanation of a
\* 'blocked' response the blocked sentence.
RoutedSentence(request, response) ==
    "Payment routed to " \o response.provider \o " with "
        \o RiskLabel(response.riskScore) \o " risk score ("
        \o toFixed2(response.riskScore) \o ") for $"
        \o toFixed2(request.amount) \o " transaction."

BlockedSentence(response) ==
    "Payment blocked due to " \o RiskLabel(response.riskScore)
        \o " risk score (" \o toFixed2(response.riskScore)
        \o ") from suspicious patterns."

ExplanationFits(request, response) ==
    /\ response.status = "success" =>
           /\ response.provider \in {"stripe", "paypal"}
           /\ response.explanation = RoutedSentence(request, response)
    /\ response.status = "blocked" =>
           response.explanation = BlockedSentence(response)

C28_SameKeySameProvider ==
    /\ \A c, d \in Invoked :
           /\ (calls[c].riskScore = calls[d].riskScore
                   /\ calls[c].isBlocked = calls[d].isBlocked)
                  => calls[c].provider = calls[d].provider
           /\ (c < d /\ KeyOf(c) = KeyOf(d))
                  => calls[c].provider = calls[d].provider
    /\ apiKey \in {"", "demo-key"} =>
           /\ \A c \in Completed :
                  ExplanationFits(calls[c].request, calls[c].response)
           /\ \A i \in 1..Len(transactions) :
                  ExplanationFits(transactions[i].request,
                                  transactions[i].response)

\* Without a usable key, the second of two equal requests got its
\* explanation from the cache, and it names the provider of its response.
C28_Witness ==
    /\ apiKey = "demo-key"
    /\ \E c, d \in Completed :
           /\ c \in calls[d].after
           /\ KeyOf(c) = KeyOf(d)
           /\ calls[d].path = "hit"
           /\ calls[d].response.provider = "paypal"
           /\ calls[d].response.explanation =
                  "Payment routed to paypal with moderate risk score (0.30) for $600.00 transaction."

CallKey(call) == cacheKey(call.request, call.riskScore, call.isBlocked)

\* A generateExplanation call with key k is between its cache lookup and its
\* return, waiting for the external call or about to resume after it.
InFlight(cs, k) ==
    \E c \in Calls :
        cs[c].pc \in {"awaitingCreate", "settled"} /\ CallKey(cs[c]) = k

\* C29: when the cache holds a value for a key and no call for that key is
\* in flight, then after any step the value is the same and still no call
\* for the key is in flight, and a call made with that key in this step
\* returns that value without an external call; so the value is the answer
\* of every later call and never changes.
C29_ExplanationStabilises ==
    [][ \A k \in DOMAIN cache :
            ~InFlight(calls, k) =>
                /\ k \in DOMAIN cache'
                /\ cache'[k] = cache[k]
                /\ ~InFlight(calls', k)
                /\ \A d \in Calls :
                       (/\ calls[d].pc = "idle" /\ calls'[d].pc # "idle"
                        /\ CallKey(calls'[d]) = k)
                           => /\ calls'[d].pc = "resolved"
                              /\ calls'[d].explanation = cache[k]
                              /\ calls'[d].externalCalls = 0 ]_vars

\* With a usable key, the text of the external service was stored by one
\* call and returned to a later call with the same key.
C29_Witness ==
    /\ apiKey = "sk-live"
    /\ \E c, d \in Returned :
           /\ c \in calls[d].after
           /\ CallKey(calls[c]) = CallKey(calls[d])
           /\ calls[c].externalCalls = 1
           /\ calls[c].explanation \in LLMTexts
           /\ calls[d].externalCalls = 0
           /\ calls[d].explanation = calls[c].explanation
           /\ cache[CallKey(calls[d])] = calls[c].explanation

\* C30: the timestamp of a transaction is the time of its append: along the
\* ledger, and along every array getTransactions has returned, timestamps
\* never decrease, and the timestamp of a transaction lies between the
\* invocation and the return of the processCharge call that appended it.
C30_TimestampTakenAtAppend ==
    /\ \A i, j \in 1..Len(transactions) :
           i < j => transactions[i].timestamp <= transactions[j].timestamp
    /\ \A s \in 1..Len(snapshots) :
           \A i, j \in 1..Len(snapshots[s].returned) :
               i < j => snapshots[s].returned[i].timestamp
                            <= snapshots[s].returned[j].timestamp
    /\ \A c \in Completed :
           \A i \in PlacesOf(transactions, calls[c].response.transactionId) :
               /\ calls[c].invokedAt <= transactions[i].timestamp
               /\ transactions[i].timestamp <= calls[c].returnedAt

\* The call that arrived first waited for the external service and was
\* appended last, with a timestamp later than its arrival and later than
\* the arrival of the other call.
C30_Witness ==
    \E c, d \in Completed :
        /\ c < d
        /\ calls[c].invokedAt < calls[d].invokedAt
        /\ PlaceOf(d) < PlaceOf(c)
        /\ transactions[PlaceOf(c)].timestamp > calls[d].invokedAt
        /\ Len(snapshots) >= 1
        /\ snapshots[Len(snapshots)].returned = transactions

\* The signals a request triggers, the email signals as calculateRiskScore
\* evaluates them (on the whole lower-cased address) and listed by hand.
TriggeredSignals(request) ==
    (IF request.amount > 50000 THEN {"large-amount"} ELSE {})
        \cup (IF request.amount > 100000 THEN {"very-large-amount"} ELSE {})
        \cup (IF request.email \in DomainSignalEmails
              THEN {"suspicious-domain"} ELSE {})
        \cup (IF request.email \in PatternSignalEmails
              THEN {"suspicious-pattern"} ELSE {})

\* C31: a charge goes to stripe exactly when no signal triggers (score 0),
\* to paypal exactly when one signal triggers, which is then the
\* large-amount, the suspicious-domain or the suspicious-pattern signal
\* (score 0.3 or 0.4), and is blocked when two or more trigger; the
\* very-large-amount signal comes with the large-amount signal only.
C31_RoutingBySignals ==
    probe.op = "processCharge" =>
        LET signals == TriggeredSignals(probe.request)
            routedTo(p) == /\ probe.result.status = "success"
                           /\ probe.result.provider = p
        IN  /\ routedTo("stripe") <=> signals = {}
            /\ routedTo("stripe") => probe.result.riskScore = 0
            /\ routedTo("paypal") <=>
                   signals \in { {"large-amount"}, {"suspicious-domain"},
                                 {"suspicious-pattern"} }
            /\ routedTo("paypal") => probe.result.riskScore \in {30, 40}
            /\ Cardinality(signals) >= 2 <=>
                   /\ probe.result.status = "blocked"
                   /\ probe.result.provider = Null
            /\ "very-large-amount" \in signals => "large-amount" \in signals
            /\ "very-large-amount" \in signals => probe.result.riskScore >= 50

\* Two signals of 0.3 each, a large amount and a pattern email, block the
\* charge with score 0.6.
C31_Witness ==
    /\ probe.op = "processCharge"
    /\ TriggeredSignals(probe.request)
           = {"large-amount", "suspicious-pattern"}
    /\ probe.result.riskScore = 60
    /\ probe.result.status = "blocked"

\* C32: for one email the risk score does not decrease when the amount
\* grows, so a blocked request stays blocked with any larger amount.
C32_ScoreMonotoneInAmount ==
    probe.op = "scorePair" =>
        /\ probe.larger.email = probe.request.email
        /\ probe.request.amount <= probe.larger.amount
        /\ probe.result.riskScore <= probe.resultLarger.riskScore
        /\ probe.result.isBlocked => probe.resultLarger.isBlocked

\* A pattern email at 60000 scores 0.6 and is blocked; at 150000 it scores
\* 0.8 and is blocked too.
C32_Witness ==
    /\ probe.op = "scorePair"
    /\ probe.request.email = "temp@gmail.com"
    /\ probe.request.amount = 60000
    /\ probe.larger.amount = 150000
    /\ probe.result.riskScore = 60
    /\ probe.result.isBlocked
    /\ probe.resultLarger.riskScore = 80
    /\ probe.resultLarger.isBlocked

\* C33: a request whose other fields are valid is accepted exactly when its
\* amount is an integer from 1 to 10000000 (of the probed amounts: 1, 1000,
\* 5000000 and 10000000), and the accepted value carries that amount; a
\* request with a required field missing or with an extra field is rejected.
C33_AmountRangeAndExactKeys ==
    probe.op = "validateChargeRequest" =>
        LET data == probe.data
            accepted == ~probe.result.error
        IN  IF DOMAIN data = RequiredKeys
            THEN /\ data.currency = "USD"
                 /\ data.source = "tok_test"
                 /\ data.email = "user@gmail.com"
                 /\ accepted <=>
                        data.amount \in { Number(1), Number(1000),
                                          Number(5000000), Number(10000000) }
                 /\ accepted => probe.result.value.amount = data.amount.int
            ELSE ~accepted

\* The largest amount, 10000000, is accepted.
C33_Witness ==
    /\ probe.op = "validateChargeRequest"
    /\ DOMAIN probe.data = RequiredKeys
    /\ probe.data.amount = Number(10000000)
    /\ ~probe.result.error
    /\ probe.result.value.amount = 10000000

=============================================================================
